---- MODULE Spec2Model ----
(***************************************************************************)
(* Work-management backend: the Socket.IO real-time layer                  *)
(* (src/config/socket.js) and the services that publish into it            *)
(* (tasks.service.js, comments.service.js).                                *)
(*                                                                         *)
(* Socket handlers are synchronous callbacks on one event loop, so each is *)
(* one action.  The HTTP services are async functions: every `await` is a  *)
(* suspension point, so each service is a small process whose program      *)
(* counter stops at every await.                                           *)
(***************************************************************************)
EXTENDS Integers, Sequences, FiniteSets, TLC

(* ------------------------------ bounds -------------------------------- *)
MaxNotifs == 2     \* stored Notification documents
MaxComments == 1   \* stored Comment documents
MaxListNotifs == 21   \* stored Notification documents where the listing is checked

(* ----------------------------- universes ------------------------------ *)
ConnIds == {"s1", "s2", "s3"}          \* socket.id values
UserIds == {"u1", "u2"}                \* User._id values
ProjectIds == {"p1", "p2"}             \* Project._id values that exist
NoProject == "p0"                      \* an ObjectId no Project has
TaskIds == {"t1", "t2"}                \* Task._id values that exist
NoTask == "t0"                         \* an ObjectId no Task has
ReqIds == {"r1", "r2"}                 \* HTTP requests in flight
Undefined == "undefined"               \* JavaScript undefined
Null == "null"                         \* JavaScript null

(* ------------------------------ tokens -------------------------------- *)
\* A word of the handshake's auth.token string.  A JWT is a word that
\* carries a payload, a signature and an expiry; "Bearer" is a literal.
Jwt(id, name, sig, expired) ==
    [kind |-> "jwt", id |-> id, name |-> name, sig |-> sig, expired |-> expired]
BearerWord ==
    [kind |-> "Bearer", id |-> Undefined, name |-> Undefined, sig |-> "none", expired |-> FALSE]
GarbageWord ==
    [kind |-> "garbage", id |-> Undefined, name |-> Undefined, sig |-> "none", expired |-> FALSE]

\* jwt.sign({ id: userId }, JWT_SECRET, { expiresIn })
generateToken(userId) == Jwt(userId, Undefined, "ok", FALSE)

ExpiredToken == Jwt("u1", Undefined, "ok", TRUE)     \* issued by the system, now expired
ForgedToken == Jwt("u2", Undefined, "bad", FALSE)    \* not signed with JWT_SECRET

\* socket.handshake.auth.token: the words separated by single spaces;
\* << >> is a missing (undefined or empty) token.
AuthHeaders ==
    { << >>,                                      \* no token
      <<generateToken("u1")>>,                    \* raw token
      <<BearerWord, generateToken("u1")>>,        \* "Bearer <token>"
      <<BearerWord, generateToken("u2")>>,
      <<ExpiredToken>>,
      <<BearerWord, ForgedToken>>,
      <<GarbageWord>>,                            \* not a JWT
      <<BearerWord>>,                             \* "Bearer" and nothing else
      <<GarbageWord, generateToken("u1")>> }      \* another scheme before a good token

\* authHeader.startsWith("Bearer ") ? authHeader.split(" ")[1] : authHeader
ExtractToken(authHeader) ==
    IF Len(authHeader) >= 2 /\ authHeader[1] = BearerWord
    THEN authHeader[2]
    ELSE IF Len(authHeader) = 1 THEN authHeader[1] ELSE GarbageWord

\* a verification that does not look at the expiry (ignoreExpiration)
VerifyOk_IgnoresExpiry(token) ==
    token.kind = "jwt" /\ token.sig = "ok"

\* jwt.verify(token, JWT_SECRET) returns the payload instead of throwing
VerifyOk(token) ==
    token.kind = "jwt" /\ token.sig = "ok" /\ ~token.expired

\* the try block of the io.use middleware reaches next() without an error
AuthAccepts(authHeader) ==
    /\ authHeader # << >>
    /\ VerifyOk(ExtractToken(authHeader))

Decoded(authHeader) ==
    [id |-> ExtractToken(authHeader).id, name |-> ExtractToken(authHeader).name]

NoIdentity == [id |-> Undefined, name |-> Undefined]

(* ------------------------------- rooms -------------------------------- *)
ProjectRoom(projectId) == <<"project", projectId>>    \* `project:${projectId}`
UserRoom(userId) == <<"user", userId>>                \* `user:${userId}`
SidRoom(sid) == <<"sid", sid>>                        \* the room every socket joins under its own id

\* the room name `undefined`: what socket.to(roomId) is given when the
\* payload has no roomId; no socket is ever in it
UndefinedRoom == <<"undefined", Undefined>>

RoomIds ==
    { ProjectRoom(p) : p \in ProjectIds } \cup { UserRoom(u) : u \in UserIds }
        \cup { SidRoom(c) : c \in ConnIds }

VARIABLES
    io,            \* TRUE once initSocket has created the Server
    proc,          \* the Node process: "running", "closing" (server.close called), "exited"
    connState,     \* per socket: "new", "rejected", "authenticated", "active", "closed"
    sockUser,      \* socket.user
    rooms,         \* the adapter's room membership of each socket
    heartbeat,     \* sockets whose heartbeatInterval is running
    onlineUsers,   \* the Map socketId -> { userId, name }, in insertion order
    emitted,       \* the most recent outbound emit: event, payload, receiving sockets
    tasks,         \* the Task collection: _id -> document
    notifications, \* the Notification collection, in insertion order
    comments,      \* the Comment collection, in insertion order
    counters,      \* the Counter collection: _id -> seq
    users,         \* the User collection, in insertion order
    req            \* the service calls in flight: one record per HTTP request

rtVars == <<io, proc, connState, sockUser, rooms, heartbeat, onlineUsers>>
storeVars == <<tasks, notifications, comments, counters, users>>
vars == <<io, proc, connState, sockUser, rooms, heartbeat, onlineUsers, emitted,
          tasks, notifications, comments, counters, users, req>>

(* --------------------------- Map operations --------------------------- *)
MapHas(m, k) == \E i \in 1..Len(m) : m[i].key = k

\* Map.prototype.set: replaces the value of a present key in place,
\* appends an absent one
MapSet(m, k, v) ==
    IF MapHas(m, k)
    THEN [i \in 1..Len(m) |-> IF m[i].key = k THEN [key |-> k, value |-> v] ELSE m[i]]
    ELSE Append(m, [key |-> k, value |-> v])

\* a delete under a key the Map does not hold (the user id, not the socket
\* id) removes nothing
MapDelete_WrongKey(m, k) == m

\* Map.prototype.delete
MapDelete(m, k) == SelectSeq(m, LAMBDA e : e.key # k)

MapKeys(m) == { m[i].key : i \in 1..Len(m) }

\* Array.from(onlineUsers.values())
MapValues(m) == [i \in 1..Len(m) |-> m[i].value]

(* ----------------------------- broadcast ------------------------------ *)
\* sockets of the namespace: connected and not yet closed
Live(state) == { c \in ConnIds : state[c] = "active" }

\* io.to(room): the sockets currently in the room
RoomMembers(rms, room) == { c \in ConnIds : room \in rms[c] }

\* io.to(room) where socket.to(room) was meant: the sender is not excluded
RoomMembersExcept_IncludesSender(rms, room, sender) == RoomMembers(rms, room)

\* socket.to(room): the room's sockets except the sender
RoomMembersExcept(rms, room, sender) == RoomMembers(rms, room) \ {sender}

Emit(event, payload, to) == [event |-> event, payload |-> payload, to |-> to]

NoEmit == Emit("none", << >>, {})    \* nothing has been emitted yet

\* io.emit("onlineUsers", Array.from(onlineUsers.values()))
broadcastOnlineUsers(registry, state) ==
    Emit("onlineUsers", MapValues(registry), Live(state))

(* ------------------------------- store ------------------------------- *)
Statuses == {"todo", "done"}           \* two of the enum's four values
BadStatus == "bogus"                   \* a value outside taskSchema's status enum
CounterNames == {"notificationId", "commentId", "userId"}

TaskDoc(project, status, assignedTo) ==
    [project |-> project, status |-> status, assignedTo |-> assignedTo]

\* createTask stores whatever ObjectId the caller gives as the project, so
\* a task may refer to a project that does not exist: t2 does.
InitialTasks ==
    [t \in TaskIds |-> TaskDoc(IF t = "t1" THEN "p1" ELSE NoProject, "todo", Null)]

\* .populate("project", "title _id"): the project document, or null when
\* no project has that id
Populate(projectId) == IF projectId \in ProjectIds THEN projectId ELSE Null

\* what a query hands back: the document found (with project populated), or null
NoDoc == [found |-> FALSE, id |-> Null, project |-> Null, status |-> Null, assignedTo |-> Null]
Found(id, doc) ==
    [found |-> TRUE, id |-> id, project |-> Populate(doc.project),
     status |-> doc.status, assignedTo |-> doc.assignedTo]

NoNotification ==
    [notificationId |-> 0, type |-> Null, recipient |-> Null, relatedTask |-> Null,
     relatedProject |-> Null, isRead |-> FALSE, updatedAt |-> Null]

\* { timestamps: true }: updatedAt is createdAt when the document is
\* inserted, and a later time once an update has touched it
AtCreation == "createdAt"
Later == "later"

\* a notification built without its relatedProject, which then takes the
\* schema default
NewNotification_NoProject(seq, assigneeId, taskId, projectId) ==
    [notificationId |-> seq, type |-> "task_assigned", recipient |-> assigneeId,
     relatedTask |-> taskId, relatedProject |-> Null, isRead |-> FALSE,
     updatedAt |-> AtCreation]

\* the document Notification.create builds in assignTask; isRead takes the
\* schema default
NewNotification(seq, assigneeId, taskId, projectId) ==
    [notificationId |-> seq, type |-> "task_assigned", recipient |-> assigneeId,
     relatedTask |-> taskId, relatedProject |-> projectId, isRead |-> FALSE,
     updatedAt |-> AtCreation]

NewComment(seq, taskId, authorId) ==
    [commentId |-> seq, task |-> taskId, author |-> authorId]

\* the document User.create builds in register: isActive takes the schema
\* default, userId comes from the pre-save hook
NewUser(id, email, role, seq) ==
    [id |-> id, email |-> email, role |-> role, isActive |-> TRUE, userId |-> seq]

Emails == {"a@x.io", "b@x.io", "c@x.io"}

\* the two users the tokens of UserIds were issued to: an employee and an admin
InitialUsers ==
    << NewUser("u1", "a@x.io", "employee", 1), NewUser("u2", "b@x.io", "admin", 2) >>

\* the _id a new document gets in the call r: ObjectIds are never reused
NewObjectId(r) == IF r = "r1" THEN "n1" ELSE "n2"

NoUser == [id |-> Null, email |-> Null, role |-> Null, isActive |-> FALSE, userId |-> 0]

\* User.findById(id) and User.findOne({ email }): the document, or null
HasId(coll, id) == \E i \in 1..Len(coll) : coll[i].id = id
FindById(coll, id) ==
    IF HasId(coll, id) THEN coll[CHOOSE i \in 1..Len(coll) : coll[i].id = id] ELSE NoUser
HasEmail(coll, email) == \E i \in 1..Len(coll) : coll[i].email = email
FindByEmail(coll, email) ==
    IF HasEmail(coll, email)
    THEN coll[CHOOSE i \in 1..Len(coll) : coll[i].email = email]
    ELSE NoUser

\* the counters as they stand once InitialUsers have been saved
InitialCounters == [n \in CounterNames |-> IF n = "userId" THEN Len(InitialUsers) ELSE 0]

IdleReq ==
    [op |-> "idle", pc |-> "idle", taskId |-> Null, arg |-> Null, task |-> NoDoc,
     seq |-> 0, doc |-> NoNotification, res |-> "none", body |-> << >>,
     user |-> NoUser]

Free(r) == req[r].pc \in {"idle", "done"}

\* a call about to run, and a call that has returned or thrown: its locals
\* are gone, the HTTP status the controller answers with remains
Call(op, pc, taskId, arg) ==
    [IdleReq EXCEPT !.op = op, !.pc = pc, !.taskId = taskId, !.arg = arg]
Done(call, res) ==
    [Call(call.op, "done", call.taskId, call.arg) EXCEPT !.res = res]

\* getIO(): throws unless initSocket has run
getIOThrows == ~io

(* ------------------------------- Init --------------------------------- *)
Init ==
    /\ io = FALSE
    /\ proc = "running"
    /\ connState = [c \in ConnIds |-> "new"]
    /\ sockUser = [c \in ConnIds |-> NoIdentity]
    /\ rooms = [c \in ConnIds |-> {}]
    /\ heartbeat = {}
    /\ onlineUsers = << >>
    /\ emitted = NoEmit
    /\ tasks = InitialTasks
    /\ notifications = << >>
    /\ comments = << >>
    /\ counters = InitialCounters
    /\ users = InitialUsers
    /\ req = [r \in ReqIds |-> IdleReq]

(* ------------------------- socket.js actions -------------------------- *)
initSocket ==
    /\ ~io
    /\ io' = TRUE
    /\ UNCHANGED <<proc, connState, sockUser, rooms, heartbeat, onlineUsers, emitted, storeVars, req>>

\* io.use: the authentication middleware of the handshake
ioUse(c, authHeader) ==
    /\ io
    /\ proc = "running"             \* the HTTP server still accepts connections
    /\ connState[c] = "new"
    /\ IF AuthAccepts(authHeader)
       THEN /\ sockUser' = [sockUser EXCEPT ![c] = Decoded(authHeader)]
            /\ connState' = [connState EXCEPT ![c] = "authenticated"]
       ELSE /\ connState' = [connState EXCEPT ![c] = "rejected"]
            /\ UNCHANGED sockUser
    /\ UNCHANGED <<io, proc, rooms, heartbeat, onlineUsers, emitted, storeVars, req>>

\* io.on("connection"): register, broadcast, start the heartbeat
onConnection(c) ==
    /\ connState[c] = "authenticated"
    /\ connState' = [connState EXCEPT ![c] = "active"]
    /\ rooms' = [rooms EXCEPT ![c] = {SidRoom(c)}]
    /\ onlineUsers' = MapSet(onlineUsers, c,
                             [userId |-> sockUser[c].id, name |-> sockUser[c].name])
    /\ emitted' = broadcastOnlineUsers(onlineUsers', connState')
    /\ heartbeat' = heartbeat \cup {c}
    /\ UNCHANGED <<io, proc, sockUser, storeVars, req>>

Now == "now"                           \* Date.now() at the time of the call

\* what a client may send with "pong": the ping's payload, or nothing
PongPayloads == { [timestamp |-> Now], [timestamp |-> Undefined] }

\* a heartbeat that closes the socket it pings
heartbeatPing_ClosesSocket(c) ==
    /\ c \in heartbeat
    /\ emitted' = Emit("ping", [timestamp |-> Now], {c} \cap Live(connState))
    /\ connState' = [connState EXCEPT ![c] = "closed"]
    /\ rooms' = [rooms EXCEPT ![c] = {}]
    /\ UNCHANGED <<io, proc, sockUser, heartbeat, onlineUsers, storeVars, req>>

\* the setInterval callback: socket.emit("ping", { timestamp: Date.now() }),
\* which reaches the socket while it is connected
heartbeatPing(c) ==
    /\ c \in heartbeat
    /\ emitted' = Emit("ping", [timestamp |-> Now], {c} \cap Live(connState))
    /\ UNCHANGED <<rtVars, storeVars, req>>

\* socket.on("pong"): logs the latency and nothing else
pong(c, data) ==
    /\ connState[c] = "active"
    /\ data \in PongPayloads
    /\ UNCHANGED vars

joinProject(c, projectId) ==
    /\ connState[c] = "active"
    /\ rooms' = [rooms EXCEPT ![c] = @ \cup {ProjectRoom(projectId)}]
    /\ UNCHANGED <<io, proc, connState, sockUser, heartbeat, onlineUsers, emitted, storeVars, req>>

\* socket.leave(projectId): without the "project:" prefix the name is that
\* of no room the socket is in
leaveProject_WrongRoom(c, projectId) ==
    /\ connState[c] = "active"
    /\ UNCHANGED vars

leaveProject(c, projectId) ==
    /\ connState[c] = "active"
    /\ rooms' = [rooms EXCEPT ![c] = @ \ {ProjectRoom(projectId)}]
    /\ UNCHANGED <<io, proc, connState, sockUser, heartbeat, onlineUsers, emitted, storeVars, req>>

joinUser(c, targetUserId) ==
    /\ connState[c] = "active"
    /\ rooms' = [rooms EXCEPT ![c] = @ \cup {UserRoom(targetUserId)}]
    /\ UNCHANGED <<io, proc, connState, sockUser, heartbeat, onlineUsers, emitted, storeVars, req>>

\* a leaveUser that takes the socket out of every room it had joined
leaveUser_LeavesAll(c, targetUserId) ==
    /\ connState[c] = "active"
    /\ rooms' = [rooms EXCEPT ![c] = {SidRoom(c)}]
    /\ UNCHANGED <<io, proc, connState, sockUser, heartbeat, onlineUsers, emitted, storeVars, req>>

leaveUser(c, targetUserId) ==
    /\ connState[c] = "active"
    /\ rooms' = [rooms EXCEPT ![c] = @ \ {UserRoom(targetUserId)}]
    /\ UNCHANGED <<io, proc, connState, sockUser, heartbeat, onlineUsers, emitted, storeVars, req>>

\* socket.broadcast.emit where socket.to(roomId).emit was meant: every other
\* socket of the namespace receives the event
startTyping_ToEveryone(c, roomId) ==
    /\ connState[c] = "active"
    /\ emitted' = Emit("userTyping",
                        [userId |-> sockUser[c].id, name |-> sockUser[c].name, roomId |-> roomId],
                        Live(connState) \ {c})
    /\ UNCHANGED <<rtVars, storeVars, req>>

\* socket.to(roomId).emit("userTyping", { userId, name, roomId })
startTyping(c, roomId) ==
    /\ connState[c] = "active"
    /\ emitted' = Emit("userTyping",
                        [userId |-> sockUser[c].id, name |-> sockUser[c].name, roomId |-> roomId],
                        RoomMembersExcept(rooms, roomId, c))
    /\ UNCHANGED <<rtVars, storeVars, req>>

\* socket.to(roomId).emit("userStoppedTyping", { userId, roomId })
stopTyping(c, roomId) ==
    /\ connState[c] = "active"
    /\ emitted' = Emit("userStoppedTyping",
                        [userId |-> sockUser[c].id, roomId |-> roomId],
                        RoomMembersExcept(rooms, roomId, c))
    /\ UNCHANGED <<rtVars, storeVars, req>>

\* process.on("uncaughtException"): logs and calls
\* server.close(() => process.exit(1)); the HTTP server stops accepting
\* connections and the process exits once the open ones have ended
uncaughtException(p) == IF p = "running" THEN "closing" ELSE p

\* "startTyping" with no payload (undefined or null): the parameter pattern
\* ({ roomId }) throws a TypeError before the handler's body runs; nothing
\* catches it on the way out of the listener
startTyping_NoPayload(c) ==
    /\ connState[c] = "active"
    /\ proc' = uncaughtException(proc)
    /\ UNCHANGED <<io, connState, sockUser, rooms, heartbeat, onlineUsers, emitted,
                   storeVars, req>>

\* "stopTyping" with no payload: the same TypeError
stopTyping_NoPayload(c) ==
    /\ connState[c] = "active"
    /\ proc' = uncaughtException(proc)
    /\ UNCHANGED <<io, connState, sockUser, rooms, heartbeat, onlineUsers, emitted,
                   storeVars, req>>

\* an inbound event no socket.on has registered a listener for
onUnknownEvent(c) ==
    /\ connState[c] = "active"
    /\ UNCHANGED vars

\* the callback of server.close: every connection has ended, process.exit(1)
serverClosed ==
    /\ proc = "closing"
    /\ \A c \in ConnIds : connState[c] \notin {"authenticated", "active"}
    /\ \A r \in ReqIds : Free(r)
    /\ proc' = "exited"
    /\ UNCHANGED <<io, connState, sockUser, rooms, heartbeat, onlineUsers, emitted,
                   storeVars, req>>

\* a disconnect after which the socket is still in the rooms it had joined
disconnect_KeepsRooms(c) ==
    /\ connState[c] = "active"
    /\ connState' = [connState EXCEPT ![c] = "closed"]
    /\ heartbeat' = heartbeat \ {c}
    /\ onlineUsers' = MapDelete(onlineUsers, c)
    /\ emitted' = broadcastOnlineUsers(onlineUsers', connState')
    /\ UNCHANGED <<io, proc, sockUser, rooms, storeVars, req>>

\* a disconnect that broadcasts before it deletes the registry entry
disconnect_BroadcastsFirst(c) ==
    /\ connState[c] = "active"
    /\ connState' = [connState EXCEPT ![c] = "closed"]
    /\ rooms' = [rooms EXCEPT ![c] = {}]
    /\ heartbeat' = heartbeat \ {c}
    /\ emitted' = broadcastOnlineUsers(onlineUsers, connState')
    /\ onlineUsers' = MapDelete(onlineUsers, c)
    /\ UNCHANGED <<io, proc, sockUser, storeVars, req>>

\* a registry keyed by user id: the disconnect of one socket removes every
\* entry of its user
disconnect_DeletesByUser(c) ==
    /\ connState[c] = "active"
    /\ connState' = [connState EXCEPT ![c] = "closed"]
    /\ rooms' = [rooms EXCEPT ![c] = {}]
    /\ heartbeat' = heartbeat \ {c}
    /\ onlineUsers' = SelectSeq(onlineUsers, LAMBDA e : e.value.userId # sockUser[c].id)
    /\ emitted' = broadcastOnlineUsers(onlineUsers', connState')
    /\ UNCHANGED <<io, proc, sockUser, storeVars, req>>

\* a disconnect that leaves the registry entry in place
disconnect_KeepsRegistered(c) ==
    /\ connState[c] = "active"
    /\ connState' = [connState EXCEPT ![c] = "closed"]
    /\ rooms' = [rooms EXCEPT ![c] = {}]
    /\ heartbeat' = heartbeat \ {c}
    /\ emitted' = broadcastOnlineUsers(onlineUsers, connState')
    /\ UNCHANGED <<io, proc, sockUser, onlineUsers, storeVars, req>>

\* a disconnect without clearInterval(heartbeatInterval)
disconnect_KeepsHeartbeat(c) ==
    /\ connState[c] = "active"
    /\ connState' = [connState EXCEPT ![c] = "closed"]
    /\ rooms' = [rooms EXCEPT ![c] = {}]
    /\ onlineUsers' = MapDelete(onlineUsers, c)
    /\ emitted' = broadcastOnlineUsers(onlineUsers', connState')
    /\ UNCHANGED <<io, proc, sockUser, heartbeat, storeVars, req>>

\* socket.on("disconnect"): the transport has closed and Socket.IO has
\* already taken the socket out of its rooms and of the namespace
disconnect(c) ==
    /\ connState[c] = "active"
    /\ connState' = [connState EXCEPT ![c] = "closed"]
    /\ rooms' = [rooms EXCEPT ![c] = {}]
    /\ heartbeat' = heartbeat \ {c}
    /\ onlineUsers' = MapDelete(onlineUsers, c)
    /\ emitted' = broadcastOnlineUsers(onlineUsers', connState')
    /\ UNCHANGED <<io, proc, sockUser, storeVars, req>>

\* the first three statements of the connection handler run for a socket
\* whose id is already a key of the Map: onlineUsers.set replaces the
\* entry's value and returns, the list is broadcast, a heartbeat is started
onConnection_SameId(c, userId) ==
    /\ io
    /\ MapHas(onlineUsers, c)
    /\ onlineUsers' = MapSet(onlineUsers, c, [userId |-> userId, name |-> Undefined])
    /\ emitted' = broadcastOnlineUsers(onlineUsers', connState)
    /\ heartbeat' = heartbeat \cup {c}
    /\ UNCHANGED <<io, proc, connState, sockUser, rooms, storeVars, req>>

\* a disconnect handler that throws when the socket is not in the registry
disconnect_Repeated_Throws(c) ==
    /\ connState[c] = "closed"
    /\ proc' = uncaughtException(proc)
    /\ UNCHANGED <<io, connState, sockUser, rooms, heartbeat, onlineUsers, emitted,
                   storeVars, req>>

\* the disconnect handler run once more for a socket it has already run
\* for: clearInterval of a cleared timer and Map.delete of an absent key do
\* nothing, the list is broadcast again
disconnect_Repeated(c) ==
    /\ connState[c] = "closed"
    /\ heartbeat' = heartbeat \ {c}
    /\ onlineUsers' = MapDelete(onlineUsers, c)
    /\ emitted' = broadcastOnlineUsers(onlineUsers', connState)
    /\ UNCHANGED <<io, proc, connState, sockUser, rooms, storeVars, req>>


(* ------------------------ Counter.js: sequences ----------------------- *)
\* a sequence number taken from the number of documents saved so far
\* instead of from the counter
getNextSequence_CountDocs(name) ==
    1 + Len(IF name = "notificationId" THEN notifications
            ELSE IF name = "commentId" THEN comments ELSE users)

\* Counter.findOneAndUpdate({ _id: name }, { $inc: { seq: 1 } },
\*                          { upsert: true, new: true }).seq
getNextSequence(name) == counters[name] + 1

(* ---------------------- tasks.service.js actions ---------------------- *)
\* updateTaskStatus, up to the end of `await Task.findByIdAndUpdate(...)`
\* and the not-found check
updateTaskStatus_update(r, taskId, newStatus) ==
    /\ Free(r)
    /\ proc # "exited"
    /\ IF newStatus \notin Statuses
       THEN \* runValidators rejects the update: the controller answers 500
            /\ req' = [req EXCEPT ![r] =
                          Done(Call("updateTaskStatus", "update", taskId, newStatus), "500")]
            /\ UNCHANGED tasks
       ELSE IF taskId \notin DOMAIN tasks
       THEN /\ req' = [req EXCEPT ![r] =
                          Done(Call("updateTaskStatus", "update", taskId, newStatus), "404")]
            /\ UNCHANGED tasks
       ELSE /\ tasks' = [tasks EXCEPT ![taskId].status = newStatus]
            /\ req' = [req EXCEPT ![r] =
                          [Call("updateTaskStatus", "emit", taskId, newStatus)
                              EXCEPT !.task = Found(taskId, tasks'[taskId])]]
    /\ UNCHANGED <<rtVars, emitted, users, notifications, comments, counters>>

\* the emit without its try/catch: the error of getIO() or of
\* task.project._id reaches the controller, which answers 500
updateTaskStatus_emit_NoCatch(r) ==
    /\ req[r].op = "updateTaskStatus" /\ req[r].pc = "emit"
    /\ IF getIOThrows \/ req[r].task.project = Null
       THEN /\ UNCHANGED emitted
            /\ req' = [req EXCEPT ![r] = Done(req[r], "500")]
       ELSE /\ emitted' = Emit("task:updated",
                               [taskId |-> req[r].task.id, status |-> req[r].task.status],
                               RoomMembers(rooms, ProjectRoom(req[r].task.project)))
            /\ req' = [req EXCEPT ![r] = Done(req[r], "200")]
    /\ UNCHANGED <<rtVars, storeVars>>

\* io.emit where io.to(`project:${id}`).emit was meant: every connected
\* socket receives the event
updateTaskStatus_emit_ToAll(r) ==
    /\ req[r].op = "updateTaskStatus" /\ req[r].pc = "emit"
    /\ IF getIOThrows \/ req[r].task.project = Null
       THEN UNCHANGED emitted
       ELSE emitted' = Emit("task:updated",
                            [taskId |-> req[r].task.id, status |-> req[r].task.status],
                            Live(connState))
    /\ req' = [req EXCEPT ![r] = Done(req[r], "200")]
    /\ UNCHANGED <<rtVars, storeVars>>

\* an emit that reads the task again instead of using the document its own
\* update returned
updateTaskStatus_emit_Rereads(r) ==
    /\ req[r].op = "updateTaskStatus" /\ req[r].pc = "emit"
    /\ IF getIOThrows \/ req[r].task.project = Null
       THEN UNCHANGED emitted
       ELSE emitted' = Emit("task:updated",
                            [taskId |-> req[r].task.id,
                             status |-> tasks[req[r].taskId].status],
                            RoomMembers(rooms, ProjectRoom(req[r].task.project)))
    /\ req' = [req EXCEPT ![r] = Done(req[r], "200")]
    /\ UNCHANGED <<rtVars, storeVars>>

\* the try/catch around the emit, and `return task`
updateTaskStatus_emit(r) ==
    /\ req[r].op = "updateTaskStatus" /\ req[r].pc = "emit"
    /\ IF getIOThrows \/ req[r].task.project = Null
       THEN UNCHANGED emitted        \* caught: "Socket emit failed"
       ELSE emitted' = Emit("task:updated",
                            [taskId |-> req[r].task.id, status |-> req[r].task.status],
                            RoomMembers(rooms, ProjectRoom(req[r].task.project)))
    /\ req' = [req EXCEPT ![r] = Done(req[r], "200")]
    /\ UNCHANGED <<rtVars, storeVars>>

\* an assignTask without the not-found check: a missing task goes on to
\* the notification like a found one
assignTask_update_NoCheck(r, taskId, assigneeId) ==
    /\ Free(r)
    /\ proc # "exited"
    /\ tasks' = IF taskId \in DOMAIN tasks
                THEN [tasks EXCEPT ![taskId].assignedTo = assigneeId]
                ELSE tasks
    /\ req' = [req EXCEPT ![r] =
                  [Call("assignTask", "seq", taskId, assigneeId)
                      EXCEPT !.task = IF taskId \in DOMAIN tasks
                                      THEN Found(taskId, tasks'[taskId])
                                      ELSE [NoDoc EXCEPT !.project = NoProject]]]
    /\ UNCHANGED <<rtVars, emitted, users, notifications, comments, counters>>

\* assignTask, up to the end of `await Task.findByIdAndUpdate(...)`, the
\* not-found check and the evaluation of Notification.create's argument
assignTask_update(r, taskId, assigneeId) ==
    /\ Free(r)
    /\ proc # "exited"
    /\ IF taskId \notin DOMAIN tasks
       THEN /\ req' = [req EXCEPT ![r] =
                          Done(Call("assignTask", "update", taskId, assigneeId), "404")]
            /\ UNCHANGED tasks
       ELSE /\ tasks' = [tasks EXCEPT ![taskId].assignedTo = assigneeId]
            /\ IF Populate(tasks[taskId].project) = Null
               THEN \* task.project._id throws a TypeError: the controller answers 500
                    req' = [req EXCEPT ![r] =
                               Done(Call("assignTask", "update", taskId, assigneeId), "500")]
               ELSE req' = [req EXCEPT ![r] =
                               [Call("assignTask", "seq", taskId, assigneeId)
                                   EXCEPT !.task = Found(taskId, tasks'[taskId])]]
    /\ UNCHANGED <<rtVars, emitted, users, notifications, comments, counters>>

\* Notification.create: the pre-save hook's `await getNextSequence(...)`
assignTask_seq(r) ==
    /\ req[r].op = "assignTask" /\ req[r].pc = "seq"
    /\ counters' = [counters EXCEPT !["notificationId"] = getNextSequence("notificationId")]
    /\ req' = [req EXCEPT ![r].pc = "save", ![r].seq = counters'["notificationId"]]
    /\ UNCHANGED <<rtVars, emitted, users, tasks, notifications, comments>>

\* Notification.create: the insert
assignTask_save(r) ==
    /\ req[r].op = "assignTask" /\ req[r].pc = "save"
    /\ LET n == NewNotification(req[r].seq, req[r].arg, req[r].taskId, req[r].task.project)
       IN /\ notifications' = Append(notifications, n)
          /\ req' = [req EXCEPT ![r].pc = "emit", ![r].doc = n]
    /\ UNCHANGED <<rtVars, emitted, users, tasks, comments, counters>>

\* the try/catch around the emit, and `return task`
assignTask_emit(r) ==
    /\ req[r].op = "assignTask" /\ req[r].pc = "emit"
    /\ IF getIOThrows
       THEN UNCHANGED emitted
       ELSE emitted' = Emit("notification:new", req[r].doc,
                            RoomMembers(rooms, UserRoom(req[r].arg)))
    /\ req' = [req EXCEPT ![r] = Done(req[r], "200")]
    /\ UNCHANGED <<rtVars, storeVars>>

(* --------------------- comments.service.js actions -------------------- *)
\* Comment.create: the pre-save hook's `await getNextSequence("commentId")`
addComment_seq(r, taskId, authorId) ==
    /\ Free(r)
    /\ proc # "exited"
    /\ Len(comments) < MaxComments
    /\ counters' = [counters EXCEPT !["commentId"] = getNextSequence("commentId")]
    /\ req' = [req EXCEPT ![r] = [Call("addComment", "save", taskId, authorId)
                                      EXCEPT !.seq = counters'["commentId"]]]
    /\ UNCHANGED <<rtVars, emitted, users, tasks, notifications, comments>>

\* an insert that also stores a "comment_added" notification for the
\* task's assignee
addComment_save_Notifies(r) ==
    /\ req[r].op = "addComment" /\ req[r].pc = "save"
    /\ LET cm == NewComment(req[r].seq, req[r].taskId, req[r].arg)
       IN /\ comments' = Append(comments, cm)
          /\ req' = [req EXCEPT ![r].pc = "find", ![r].doc = cm]
    /\ notifications' = Append(notifications,
            [notificationId |-> 0, type |-> "comment_added", recipient |-> req[r].arg,
             relatedTask |-> req[r].taskId, relatedProject |-> Null, isRead |-> FALSE])
    /\ UNCHANGED <<rtVars, emitted, users, tasks, counters>>

\* Comment.create: the insert (and the populate of the author)
addComment_save(r) ==
    /\ req[r].op = "addComment" /\ req[r].pc = "save"
    /\ LET cm == NewComment(req[r].seq, req[r].taskId, req[r].arg)
       IN /\ comments' = Append(comments, cm)
          /\ req' = [req EXCEPT ![r].pc = "find", ![r].doc = cm]
    /\ UNCHANGED <<rtVars, emitted, users, tasks, notifications, counters>>

\* `await Task.findById(taskId).select("project")`: project is not populated
addComment_find(r) ==
    /\ req[r].op = "addComment" /\ req[r].pc = "find"
    /\ req' = [req EXCEPT ![r].pc = "emit",
                  ![r].task = IF req[r].taskId \in DOMAIN tasks
                              THEN [Found(req[r].taskId, tasks[req[r].taskId])
                                        EXCEPT !.project = tasks[req[r].taskId].project]
                              ELSE NoDoc]
    /\ UNCHANGED <<rtVars, emitted, storeVars>>

\* a room named after the task instead of the task's project
addComment_emit_TaskRoom(r) ==
    /\ req[r].op = "addComment" /\ req[r].pc = "emit"
    /\ IF ~req[r].task.found \/ getIOThrows
       THEN UNCHANGED emitted
       ELSE emitted' = Emit("comment:new",
                            [taskId |-> req[r].taskId, comment |-> req[r].doc],
                            RoomMembers(rooms, ProjectRoom(req[r].taskId)))
    /\ req' = [req EXCEPT ![r] = Done(req[r], "201")]
    /\ UNCHANGED <<rtVars, storeVars>>

\* `if (task) { getIO()...emit("comment:new", ...) }`, the catch, `return comment`
addComment_emit(r) ==
    /\ req[r].op = "addComment" /\ req[r].pc = "emit"
    /\ IF ~req[r].task.found \/ getIOThrows
       THEN UNCHANGED emitted
       ELSE emitted' = Emit("comment:new",
                            [taskId |-> req[r].taskId, comment |-> req[r].doc],
                            RoomMembers(rooms, ProjectRoom(req[r].task.project)))
    /\ req' = [req EXCEPT ![r] = Done(req[r], "201")]
    /\ UNCHANGED <<rtVars, storeVars>>

(* -------------------- dashboard.routes.js: listing -------------------- *)
ListLimit == 20                        \* .limit(20)

\* Notification.find({ recipient })
FindByRecipient(coll, userId) == SelectSeq(coll, LAMBDA n : n.recipient = userId)

\* .sort({ createdAt: -1 }): createdAt is set at the insert, so the documents
\* come in the reverse of the insertion order
SortNewestFirst(docs) == [i \in 1..Len(docs) |-> docs[Len(docs) + 1 - i]]

\* .limit(n)
Limit(docs, n) == IF Len(docs) <= n THEN docs ELSE SubSeq(docs, 1, n)

\* a listing sorted the other way round: the oldest documents come first
ListNotifications_OldestFirst(coll, userId) ==
    Limit(FindByRecipient(coll, userId), ListLimit)

\* Notification.find({ recipient: req.user._id }).sort({ createdAt: -1 }).limit(20)
ListNotifications(coll, userId) ==
    Limit(SortNewestFirst(FindByRecipient(coll, userId)), ListLimit)

\* GET /api/dashboard/notifications for the user `protect` has authenticated
getNotifications(r, userId) ==
    /\ Free(r)
    /\ proc # "exited"
    /\ req' = [req EXCEPT ![r] =
                  [Done(Call("getNotifications", "find", Null, userId), "200")
                      EXCEPT !.body = ListNotifications(notifications, userId)]]
    /\ UNCHANGED <<rtVars, emitted, storeVars>>

\* a read acknowledgement that flips the flag instead of setting it
markRead_Toggles(r, notifId) ==
    /\ Free(r)
    /\ proc # "exited"
    /\ notifications' =
          [i \in 1..Len(notifications) |->
              IF notifications[i].notificationId = notifId
              THEN [notifications[i] EXCEPT !.isRead = ~@, !.updatedAt = Later]
              ELSE notifications[i]]
    /\ req' = [req EXCEPT ![r] = Done(Call("markRead", "update", Null, notifId), "200")]
    /\ UNCHANGED <<rtVars, emitted, users, tasks, comments, counters>>

\* PATCH /api/dashboard/notifications/:id/read:
\* Notification.findByIdAndUpdate(id, { isRead: true }), then 200 whether
\* or not a document had that id; the schema's timestamps option makes the
\* update set updatedAt as well
markRead(r, notifId) ==
    /\ Free(r)
    /\ proc # "exited"
    /\ notifications' =
          [i \in 1..Len(notifications) |->
              IF notifications[i].notificationId = notifId
              THEN [notifications[i] EXCEPT !.isRead = TRUE, !.updatedAt = Later]
              ELSE notifications[i]]
    /\ req' = [req EXCEPT ![r] = Done(Call("markRead", "update", Null, notifId), "200")]
    /\ UNCHANGED <<rtVars, emitted, users, tasks, comments, counters>>

(* ------------------- auth.js, auth and users services ----------------- *)
\* the Authorization headers a request may carry
HttpAuthHeaders ==
    { << >>,
      <<BearerWord, generateToken("u1")>>,
      <<BearerWord, generateToken("u2")>>,
      <<generateToken("u1")>>,                     \* a good token without "Bearer"
      <<BearerWord, ExpiredToken>> }

\* protect: the header must start with "Bearer"; the token is the second
\* word, undefined when there is none
HasBearerToken(authHeader) == Len(authHeader) >= 2 /\ authHeader[1] = BearerWord

\* protect: 401 unless the header holds a Bearer token that verifies and
\* User.findById(decoded.id) finds an active user; otherwise req.user is
\* set and next() hands the request to the route's next handler
protect(r, authHeader) ==
    /\ Free(r)
    /\ proc # "exited"
    /\ req' = [req EXCEPT ![r] =
          IF ~HasBearerToken(authHeader) \/ ~VerifyOk(authHeader[2])
          THEN Done(Call("protect", "verify", Null, Null), "401")
          ELSE IF \/ ~HasId(users, authHeader[2].id)
                  \/ ~FindById(users, authHeader[2].id).isActive
          THEN Done(Call("protect", "find", Null, authHeader[2].id), "401")
          ELSE [Call("protect", "next", Null, authHeader[2].id)
                   EXCEPT !.user = FindById(users, authHeader[2].id)]]
    /\ UNCHANGED <<rtVars, emitted, storeVars>>

\* GET /api/auth/me, behind protect
getMe(r) ==
    /\ req[r].op = "protect" /\ req[r].pc = "next"
    /\ req' = [req EXCEPT ![r] = Done(Call("getMe", "find", Null, req[r].arg), "200")]
    /\ UNCHANGED <<rtVars, emitted, storeVars>>

\* findByIdAndUpdate(id, data): the collection with the fields of `data`
\* set in the document of that id
UpdateById(coll, id, data) ==
    [i \in 1..Len(coll) |->
        IF coll[i].id = id
        THEN [f \in DOMAIN coll[i] |-> IF f \in DOMAIN data THEN data[f] ELSE coll[i][f]]
        ELSE coll[i]]

\* DELETE /api/users/:id, behind protect and authorize("admin"):
\* User.findByIdAndUpdate(id, { isActive: false })
deleteUser(r, id) ==
    /\ req[r].op = "protect" /\ req[r].pc = "next"
    /\ IF req[r].user.role # "admin"
       THEN /\ req' = [req EXCEPT ![r] = Done(Call("deleteUser", "authorize", Null, id), "403")]
            /\ UNCHANGED users
       ELSE IF ~HasId(users, id)
       THEN /\ req' = [req EXCEPT ![r] = Done(Call("deleteUser", "update", Null, id), "404")]
            /\ UNCHANGED users
       ELSE /\ users' = UpdateById(users, id, [isActive |-> FALSE])
            /\ req' = [req EXCEPT ![r] = Done(Call("deleteUser", "update", Null, id), "200")]
    /\ UNCHANGED <<rtVars, emitted, tasks, notifications, comments, counters>>

\* the request bodies PUT /api/users/:id is sent
UpdateBodies == { [isActive |-> TRUE], [role |-> "admin"] }

\* PUT /api/users/:id, behind protect only:
\* User.findByIdAndUpdate(id, req.body, { new: true, runValidators: true })
updateUser(r, id, updateData) ==
    /\ req[r].op = "protect" /\ req[r].pc = "next"
    /\ IF ~HasId(users, id)
       THEN /\ req' = [req EXCEPT ![r] = Done(Call("updateUser", "update", Null, id), "404")]
            /\ UNCHANGED users
       ELSE /\ users' = UpdateById(users, id, updateData)
            /\ req' = [req EXCEPT ![r] =
                          [Done(Call("updateUser", "update", Null, id), "200")
                              EXCEPT !.body = <<updateData>>]]
    /\ UNCHANGED <<rtVars, emitted, tasks, notifications, comments, counters>>

Passwords == {"right", "wrong"}        \* the user's password, and another one

\* login, up to the end of `await User.findOne({ email }).select("+password")`
\* and the check that a user was found
login_find(r, email, password) ==
    /\ Free(r)
    /\ proc # "exited"
    /\ req' = [req EXCEPT ![r] =
          IF ~HasEmail(users, email)
          THEN Done(Call("login", "find", Null, email), "401")
          ELSE [Call("login", "compare", Null, email)
                   EXCEPT !.user = FindByEmail(users, email), !.body = <<password>>]]
    /\ UNCHANGED <<rtVars, emitted, storeVars>>

\* login, after `await user.comparePassword(password)`: the password, then
\* isActive of the document that was read
login_compare(r) ==
    /\ req[r].op = "login" /\ req[r].pc = "compare"
    /\ req' = [req EXCEPT ![r] =
          IF req[r].body # <<"right">> \/ ~req[r].user.isActive
          THEN Done(req[r], "401")
          ELSE Done(req[r], "200")]
    /\ UNCHANGED <<rtVars, emitted, storeVars>>

\* register, up to the end of `await User.findOne({ email })` and the check
\* that the email is not taken
register_find(r, email) ==
    /\ Free(r)
    /\ proc # "exited"
    /\ req' = [req EXCEPT ![r] =
          IF HasEmail(users, email)
          THEN Done(Call("register", "find", Null, email), "400")
          ELSE Call("register", "seq", Null, email)]
    /\ UNCHANGED <<rtVars, emitted, storeVars>>

\* User.create: the pre-save hook's `await getNextSequence("userId")`
register_seq(r) ==
    /\ req[r].op = "register" /\ req[r].pc = "seq"
    /\ counters' = [counters EXCEPT !["userId"] = getNextSequence("userId")]
    /\ req' = [req EXCEPT ![r].pc = "save", ![r].seq = counters'["userId"]]
    /\ UNCHANGED <<rtVars, emitted, users, tasks, notifications, comments>>

\* User.create: the insert. The unique index on email refuses a second
\* document with the same email (E11000); the error has no statusCode and
\* the global error handler answers 500
register_save(r) ==
    /\ req[r].op = "register" /\ req[r].pc = "save"
    /\ IF HasEmail(users, req[r].arg)
       THEN /\ req' = [req EXCEPT ![r] = Done(req[r], "500")]
            /\ UNCHANGED users
       ELSE /\ users' = Append(users, NewUser(NewObjectId(r), req[r].arg, "employee",
                                               req[r].seq))
            /\ req' = [req EXCEPT ![r] = Done(req[r], "201")]
    /\ UNCHANGED <<rtVars, emitted, tasks, notifications, comments, counters>>

(* --------------------------- specifications --------------------------- *)
\* The real-time layer alone: three sockets, one project room, one
\* personal room.
NextRT ==
    \/ initSocket
    \/ \E c \in ConnIds, h \in AuthHeaders : ioUse(c, h)
    \/ \E c \in ConnIds : onConnection(c)
    \/ \E c \in ConnIds : joinProject(c, "p1")
    \/ \E c \in ConnIds : leaveProject(c, "p1")
    \/ \E c \in ConnIds : joinUser(c, "u1")
    \/ \E c \in ConnIds : leaveUser(c, "u1")
    \/ \E c \in ConnIds, rm \in {ProjectRoom("p1"), SidRoom("s1")} : startTyping(c, rm)
    \/ \E c \in ConnIds, rm \in {ProjectRoom("p1"), SidRoom("s1")} : stopTyping(c, rm)
    \/ \E c \in ConnIds : disconnect(c)

SpecRT == Init /\ [][NextRT]_vars


\* Task assignment publishing into the personal rooms: two sockets, one
\* HTTP request at a time.
NextFan ==
    \/ initSocket
    \/ \E c \in {"s1", "s2"},
          h \in {<<generateToken("u1")>>, <<BearerWord, generateToken("u2")>>} :
            ioUse(c, h)
    \/ \E c \in {"s1", "s2"} : onConnection(c)
    \/ \E c \in {"s1", "s2"} : joinUser(c, "u1")
    \/ \E c \in {"s1", "s2"} : leaveUser(c, "u1")
    \/ \E c \in {"s1", "s2"} : disconnect(c)
    \/ /\ Len(notifications) < MaxNotifs
       /\ \E t \in TaskIds \cup {NoTask}, u \in UserIds : assignTask_update("r1", t, u)
    \/ assignTask_seq("r1")
    \/ assignTask_save("r1")
    \/ assignTask_emit("r1")

SpecFan == Init /\ [][NextFan]_vars

\* The three services one call at a time, with or without an initialised
\* Socket.IO server, and two sockets to listen.
NextStore ==
    \/ initSocket
    \/ \E c \in {"s1", "s2"} : ioUse(c, <<generateToken("u1")>>)
    \/ \E c \in {"s1", "s2"} : onConnection(c)
    \/ \E c \in {"s1", "s2"} : joinProject(c, "p1")
    \/ joinUser("s1", "u1")
    \/ \E t \in TaskIds \cup {NoTask}, st \in {"done", BadStatus} :
            updateTaskStatus_update("r1", t, st)
    \/ updateTaskStatus_emit("r1")
    \/ /\ Len(notifications) < MaxNotifs
       /\ \E t \in TaskIds \cup {NoTask} : assignTask_update("r1", t, "u1")
    \/ assignTask_seq("r1")
    \/ assignTask_save("r1")
    \/ assignTask_emit("r1")
    \/ \E t \in {"t1", NoTask} : addComment_seq("r1", t, "u2")
    \/ addComment_save("r1")
    \/ addComment_find("r1")
    \/ addComment_emit("r1")

SpecStore == Init /\ [][NextStore]_vars

\* Every kind of publish against sockets that come and go: two sockets, the
\* room-targeted emits of socket.js and of the three services.
NextClose ==
    \/ initSocket
    \/ \E c \in {"s1", "s2"} : ioUse(c, <<BearerWord, generateToken("u1")>>)
    \/ \E c \in {"s1", "s2"} : onConnection(c)
    \/ \E c \in {"s1", "s2"} : joinProject(c, "p1")
    \/ \E c \in {"s1", "s2"} : joinUser(c, "u1")
    \/ \E c \in {"s1", "s2"} : disconnect(c)
    \/ \E c \in {"s1", "s2"} : startTyping(c, ProjectRoom("p1"))
    \/ updateTaskStatus_update("r1", "t1", "done")
    \/ updateTaskStatus_emit("r1")
    \/ Len(notifications) < MaxNotifs /\ assignTask_update("r1", "t1", "u1")
    \/ assignTask_seq("r1")
    \/ assignTask_save("r1")
    \/ assignTask_emit("r1")
    \/ addComment_seq("r1", "t1", "u2")
    \/ addComment_save("r1")
    \/ addComment_find("r1")
    \/ addComment_emit("r1")

SpecClose == Init /\ [][NextClose]_vars

\* Presence alone: three sockets of two users (so one user may hold two
\* sockets) that connect and disconnect.
NextPresence ==
    \/ initSocket
    \/ \E c \in ConnIds,
          h \in {<< >>, <<generateToken("u1")>>, <<BearerWord, generateToken("u2")>>} :
            ioUse(c, h)
    \/ \E c \in ConnIds : onConnection(c)
    \/ \E c \in ConnIds : disconnect(c)

SpecPresence == Init /\ [][NextPresence]_vars

\* The Notification collection under everything that touches it:
\* assignments that create notifications, read acknowledgements of present
\* and absent ids (some repeated), and the listing.
NextNotif ==
    \/ initSocket
    \/ /\ Len(notifications) < MaxNotifs
       /\ \E t \in TaskIds \cup {NoTask}, u \in UserIds : assignTask_update("r1", t, u)
    \/ assignTask_seq("r1")
    \/ assignTask_save("r1")
    \/ assignTask_emit("r1")
    \/ \E n \in 1..(MaxNotifs + 1) : markRead("r2", n)
    \/ \E u \in UserIds : getNotifications("r2", u)

SpecNotif == Init /\ [][NextNotif]_vars

\* Entity creations in two concurrent requests, each of which may be an
\* assignment (a Notification is created) or a comment (a Comment is).
NextSeq ==
    \/ initSocket
    \/ \E r \in ReqIds :
          \/ Len(notifications) < MaxNotifs /\ assignTask_update(r, "t1", "u1")
          \/ assignTask_seq(r)
          \/ assignTask_save(r)
          \/ assignTask_emit(r)
          \/ addComment_seq(r, "t1", "u2")
          \/ addComment_save(r)
          \/ addComment_find(r)
          \/ addComment_emit(r)

SpecSeq == Init /\ [][NextSeq]_vars

\* Two requests that update the status of the same task, each between its
\* write and its emit for as long as the scheduler likes, and one socket in
\* the task's project room.
NextRace ==
    \/ initSocket
    \/ ioUse("s1", <<generateToken("u1")>>)
    \/ onConnection("s1")
    \/ joinProject("s1", "p1")
    \/ \E r \in ReqIds, st \in Statuses : updateTaskStatus_update(r, "t1", st)
    \/ \E r \in ReqIds : updateTaskStatus_emit(r)

SpecRace == Init /\ [][NextRace]_vars

\* Accounts: two requests that go through protect to the users routes, or
\* log in, while users are deactivated and updated.
NextAuth ==
    \/ \E r \in ReqIds, h \in HttpAuthHeaders : protect(r, h)
    \/ \E r \in ReqIds : getMe(r)
    \/ \E r \in ReqIds, id \in UserIds \cup {NewObjectId("r1")} : deleteUser(r, id)
    \/ \E r \in ReqIds, id \in UserIds \cup {NewObjectId("r1")}, data \in UpdateBodies :
            updateUser(r, id, data)
    \/ \E r \in ReqIds, e \in {"a@x.io", "c@x.io"}, pw \in Passwords : login_find(r, e, pw)
    \/ \E r \in ReqIds : login_compare(r)

SpecAuth == Init /\ [][NextAuth]_vars

\* Registration: two requests that register, for an email that is free or
\* for one that is taken.
NextRegister ==
    \/ \E r \in ReqIds, e \in {"a@x.io", "c@x.io"} : register_find(r, e)
    \/ \E r \in ReqIds : register_seq(r)
    \/ \E r \in ReqIds : register_save(r)
    \/ \E r \in ReqIds, pw \in Passwords : login_find(r, "c@x.io", pw)
    \/ \E r \in ReqIds : login_compare(r)

SpecRegister == Init /\ [][NextRegister]_vars

\* The registry's two operations under repeated events: sockets of two
\* users connect and disconnect, a connection event may name an id that is
\* already registered, a disconnect event may come twice.
NextRegistry ==
    \/ initSocket
    \/ \E c \in ConnIds,
          h \in {<< >>, <<generateToken("u1")>>, <<BearerWord, generateToken("u2")>>} :
            ioUse(c, h)
    \/ \E c \in ConnIds : onConnection(c)
    \/ \E c \in ConnIds, u \in UserIds : onConnection_SameId(c, u)
    \/ \E c \in ConnIds : disconnect(c)
    \/ \E c \in ConnIds : disconnect_Repeated(c)

SpecRegistry == Init /\ [][NextRegistry]_vars

\* The pull-based listing against a growing Notification collection: one
\* socket in room user:u1, assignments of t1 (to u2 only among the first
\* MaxNotifs documents), with or without an initialised Socket.IO server.
NextList ==
    \/ initSocket
    \/ ioUse("s1", <<generateToken("u1")>>)
    \/ onConnection("s1")
    \/ joinUser("s1", "u1")
    \/ Len(notifications) < MaxListNotifs /\ assignTask_update("r1", "t1", "u1")
    \/ Len(notifications) < MaxNotifs /\ assignTask_update("r1", "t1", "u2")
    \/ assignTask_seq("r1")
    \/ assignTask_save("r1")
    \/ assignTask_emit("r1")
    \/ \E u \in UserIds : getNotifications("r1", u)

SpecList == Init /\ [][NextList]_vars

\* The life of a socket: two sockets from handshake to disconnect, with
\* their heartbeats and their rooms.
NextLife ==
    \/ initSocket
    \/ \E c \in {"s1", "s2"},
          h \in {<< >>, <<generateToken("u1")>>, <<BearerWord, generateToken("u2")>>} :
            ioUse(c, h)
    \/ \E c \in {"s1", "s2"} : onConnection(c)
    \/ \E c \in {"s1", "s2"} : heartbeatPing(c)
    \/ \E c \in {"s1", "s2"}, data \in PongPayloads : pong(c, data)
    \/ \E c \in {"s1", "s2"} : joinProject(c, "p1")
    \/ \E c \in {"s1", "s2"} : leaveProject(c, "p1")
    \/ \E c \in {"s1", "s2"} : joinUser(c, "u1")
    \/ \E c \in {"s1", "s2"} : leaveUser(c, "u1")
    \/ \E c \in {"s1", "s2"} : startTyping(c, ProjectRoom("p1"))
    \/ \E c \in {"s1", "s2"} : disconnect(c)

SpecLife == Init /\ [][NextLife]_vars

\* Inbound events a client may send, well-formed or not: two sockets of
\* two users, one project room, and an HTTP request to see the server
\* answer.
NextInbound ==
    \/ initSocket
    \/ \E c \in {"s1", "s2"},
          h \in {<<generateToken("u1")>>, <<BearerWord, generateToken("u2")>>} :
            ioUse(c, h)
    \/ \E c \in {"s1", "s2"} : onConnection(c)
    \/ \E c \in {"s1", "s2"} : joinProject(c, "p1")
    \/ \E c \in {"s1", "s2"}, rm \in {ProjectRoom("p1"), UndefinedRoom} : startTyping(c, rm)
    \/ \E c \in {"s1", "s2"} : stopTyping(c, UndefinedRoom)
    \/ \E c \in {"s1", "s2"} : startTyping_NoPayload(c)
    \/ \E c \in {"s1", "s2"} : stopTyping_NoPayload(c)
    \/ \E c \in {"s1", "s2"} : onUnknownEvent(c)
    \/ \E c \in {"s1", "s2"} : disconnect(c)
    \/ serverClosed
    \/ getNotifications("r1", "u1")

SpecInbound == Init /\ [][NextInbound]_vars

(* ------------------------------ properties ---------------------------- *)
Registered == { c \in ConnIds : connState[c] \in {"active", "closed"} }
Deregistered == { c \in ConnIds : connState[c] = "closed" }

\* C1: after any sequence of 'connection' and 'disconnect' events the keys
\* of onlineUsers are exactly the socket ids registered minus the socket
\* ids deregistered, each once.
C1_RegistryIsRegisteredMinusDeregistered ==
    /\ MapKeys(onlineUsers) = Registered \ Deregistered
    /\ Len(onlineUsers) = Cardinality(Registered \ Deregistered)

\* two sockets have registered, one of them has deregistered
C1_Witness ==
    \E c, d \in ConnIds :
        /\ connState[c] = "closed"
        /\ connState[d] = "active"
        /\ MapKeys(onlineUsers) = {d}

\* the handshake token is missing, malformed, expired or wrongly signed
FailsVerification(authHeader) ==
    \/ authHeader = << >>
    \/ ExtractToken(authHeader).kind # "jwt"
    \/ ExtractToken(authHeader).expired
    \/ ExtractToken(authHeader).sig # "ok"

\* C2: a handshake whose token fails verification rejects the socket
\* without touching the registry, the heartbeats, the rooms or the emits,
\* and a rejected socket never becomes active: it stays rejected, out of
\* the registry, without heartbeat and without rooms, and runs neither the
\* connection nor the disconnect handler (the two that broadcast
\* onlineUsers).
C2_RejectedNeverActive ==
    [][\A c \in ConnIds :
        /\ \A h \in AuthHeaders :
              (ioUse(c, h) /\ FailsVerification(h))
                  => /\ connState'[c] = "rejected"
                     /\ UNCHANGED <<onlineUsers, heartbeat, rooms, emitted>>
        /\ connState[c] = "rejected"
              => /\ connState'[c] = "rejected"
                 /\ ~MapHas(onlineUsers', c)
                 /\ c \notin heartbeat'
                 /\ rooms'[c] = {}
                 /\ ~onConnection(c)
                 /\ ~disconnect(c)]_vars

\* one socket was rejected while another went on to register
C2_Witness ==
    \E c, d \in ConnIds :
        /\ connState[c] = "rejected"
        /\ connState[d] = "active"
        /\ MapKeys(onlineUsers) = {d}
        /\ rooms[d] # {SidRoom(d)}

\* C3: a notification:new produced by assigning a task to user U reaches
\* only sockets authenticated as U, whatever joinUser and leaveUser events
\* the other sockets have sent.
C3_NotificationOnlyToRecipient ==
    emitted.event = "notification:new"
        => \A c \in emitted.to : sockUser[c].id = emitted.payload.recipient

\* C4: an assignTask call on an existing task T of an existing project P
\* for user U runs to its end; it stores exactly one Notification, in the
\* step of Notification.create's insert, with type task_assigned,
\* recipient U, relatedTask T, relatedProject P and isRead false; and when
\* it emits, every active socket then in room user:U receives
\* notification:new with that stored document as payload.
C4_AssignCreatesAndDelivers ==
    [][\A r \in ReqIds :
        (req'[r].op = "assignTask" /\ req'[r] # req[r]) =>
          /\ (Free(r) /\ req'[r].taskId \in DOMAIN tasks
                      /\ tasks[req'[r].taskId].project \in ProjectIds)
                => req'[r].pc = "seq"
          /\ req'[r].pc \in {"seq", "save"} => notifications' = notifications
          /\ req'[r].pc = "save" => req[r].pc = "seq"
          /\ req'[r].pc = "emit"
                => /\ req[r].pc = "save"
                   /\ Len(notifications') = Len(notifications) + 1
                   /\ SubSeq(notifications', 1, Len(notifications)) = notifications
                   /\ LET n == notifications'[Len(notifications')]
                      IN /\ n.type = "task_assigned"
                         /\ n.recipient = req[r].arg
                         /\ n.relatedTask = req[r].taskId
                         /\ n.relatedProject = tasks[req[r].taskId].project
                         /\ n.relatedProject \in ProjectIds
                         /\ n.isRead = FALSE
                         /\ req'[r].doc = n
          /\ (req'[r].pc = "done" /\ req'[r].res = "200")
                => /\ req[r].pc = "emit"
                   /\ notifications' = notifications
                   /\ \E i \in 1..Len(notifications) : notifications[i] = req[r].doc
                   /\ \A c \in ConnIds :
                        (connState[c] = "active" /\ UserRoom(req[r].arg) \in rooms[c])
                            => /\ emitted'.event = "notification:new"
                               /\ emitted'.payload = req[r].doc
                               /\ c \in emitted'.to]_vars

\* task t1 of project p1 was assigned to u1, the notification is stored and
\* a socket in room user:u1 has received it
C4_Witness ==
    /\ req["r1"].op = "assignTask" /\ req["r1"].res = "200"
    /\ req["r1"].taskId = "t1" /\ req["r1"].arg = "u1"
    /\ tasks["t1"].assignedTo = "u1"
    /\ Len(notifications) = 1
    /\ emitted.event = "notification:new"
    /\ emitted.payload = notifications[1]
    /\ emitted.to # {}

\* C5: no step of updateTaskStatus or addComment changes the stored
\* notifications; the only step that does is the insert of assignTask's
\* Notification.create.
C5_OnlyAssignmentCreatesNotifications ==
    [][/\ \A r \in ReqIds :
            (req'[r] # req[r] /\ req'[r].op \in {"updateTaskStatus", "addComment"})
                => notifications' = notifications
       /\ notifications' # notifications
            => \E r \in ReqIds : /\ req[r].op = "assignTask" /\ req[r].pc = "save"
                                 /\ req'[r].op = "assignTask"]_vars

\* a status change and a comment have both been committed and broadcast,
\* and no notification is stored
C5_Witness ==
    /\ tasks["t1"].status = "done"
    /\ Len(comments) = 1
    /\ req["r1"].op = "addComment" /\ req["r1"].res = "201"
    /\ emitted.event = "comment:new"
    /\ notifications = << >>

\* the broadcast step of call q fails: getIO() throws, or (updateTaskStatus)
\* the populated project is null
BroadcastFails(q) ==
    \/ ~io
    \/ q.op = "updateTaskStatus" /\ q.task.project = Null

\* C6: when the broadcast step of updateTaskStatus, assignTask or
\* addComment fails, the call still ends with its success status (200,
\* 200, 201), nothing is emitted, the store is left as it was, and the
\* write the call committed is still in the store.
C6_BroadcastFailureIsSwallowed ==
    [][\A r \in ReqIds :
        (req[r].pc = "emit" /\ req'[r] # req[r] /\ BroadcastFails(req[r]))
            => /\ req'[r].pc = "done"
               /\ req'[r].res = IF req[r].op = "addComment" THEN "201" ELSE "200"
               /\ UNCHANGED <<emitted, tasks, notifications, comments, counters, users>>
               /\ req[r].op = "updateTaskStatus"
                    => tasks'[req[r].taskId].status = req[r].arg
               /\ req[r].op = "assignTask"
                    => /\ tasks'[req[r].taskId].assignedTo = req[r].arg
                       /\ \E i \in 1..Len(notifications') : notifications'[i] = req[r].doc
               /\ req[r].op = "addComment"
                    => \E i \in 1..Len(comments') : comments'[i] = req[r].doc]_vars

\* Socket.IO was never initialised, and a status change was answered 200
\* with its write in the store
C6_Witness ==
    /\ ~io
    /\ req["r1"].op = "updateTaskStatus" /\ req["r1"].res = "200"
    /\ tasks[req["r1"].taskId].status = "done"
    /\ emitted = NoEmit

\* C7: a userTyping or userStoppedTyping event published by socket X to a
\* room is not delivered to X, whatever the room (a topic, or X's own id);
\* when X is the room's only member nobody receives it.
C7_TypingNeverEchoed ==
    [][emitted'.event \in {"userTyping", "userStoppedTyping"} =>
        \A c \in ConnIds :
            LET rm == emitted'.payload.roomId
            IN (startTyping(c, rm) \/ stopTyping(c, rm))
                  => /\ c \notin emitted'.to
                     /\ RoomMembers(rooms, rm) = {c} => emitted'.to = {}]_vars

\* a socket typed into a room of which it was the only member, and nobody
\* received the event
C7_Witness ==
    /\ emitted.event = "userTyping"
    /\ emitted.to = {}
    /\ \E c \in ConnIds :
          /\ RoomMembers(rooms, emitted.payload.roomId) = {c}
          /\ sockUser[c].id = emitted.payload.userId

\* C8: when sockets A and B are both active and both in the room of one
\* project, a startTyping of A for that room is delivered to B as
\* userTyping with A's user id and that room, and to no socket outside the
\* room.
C8_TypingReachesTheRoom ==
    [][\A a, b \in ConnIds, p \in ProjectIds :
        ( /\ a # b
          /\ connState[a] = "active" /\ connState[b] = "active"
          /\ ProjectRoom(p) \in rooms[a] /\ ProjectRoom(p) \in rooms[b]
          /\ startTyping(a, ProjectRoom(p)) )
            => /\ emitted'.event = "userTyping"
               /\ emitted'.payload.userId = sockUser[a].id
               /\ emitted'.payload.roomId = ProjectRoom(p)
               /\ b \in emitted'.to
               /\ \A c \in emitted'.to : ProjectRoom(p) \in rooms[c]]_vars

\* two sockets of room project:p1, a third active socket outside it: the
\* typing event of one has reached exactly the other
C8_Witness ==
    /\ emitted.event = "userTyping"
    /\ emitted.payload.roomId = ProjectRoom("p1")
    /\ Cardinality(emitted.to) = 1
    /\ Cardinality(RoomMembers(rooms, ProjectRoom("p1"))) = 2
    /\ \E c \in ConnIds : connState[c] = "active" /\ ProjectRoom("p1") \notin rooms[c]

C10_BroadcastOnEveryChange ==
    [][\A c \in ConnIds :
        ( \/ connState[c] # "active" /\ connState'[c] = "active"
          \/ connState[c] = "active" /\ connState'[c] # "active"
          \/ MapHas(onlineUsers, c) # MapHas(onlineUsers', c) )
            => /\ emitted'.event = "onlineUsers"
               /\ emitted'.payload = [i \in 1..Len(onlineUsers') |-> onlineUsers'[i].value]
               /\ emitted'.to = { d \in ConnIds : connState'[d] = "active" }]_vars

\* the last broadcast followed a deregistration: it went to the two sockets
\* that remain and lists those two
C10_Witness ==
    /\ emitted.event = "onlineUsers"
    /\ Len(emitted.payload) = 2
    /\ Cardinality(emitted.to) = 2
    /\ \E c \in ConnIds : connState[c] = "closed"

\* the entries of an onlineUsers payload that carry user id u
EntriesOf(payload, u) == { i \in 1..Len(payload) : payload[i].userId = u }

C12_StatusChangeBroadcastsToProjectRoom ==
    [][\A r \in ReqIds :
        (req'[r].op = "updateTaskStatus" /\ req'[r] # req[r]) =>
          /\ req[r].pc # "emit" => emitted' = emitted
          /\ req'[r].res \in {"404", "500"} => /\ emitted' = emitted
                                                /\ tasks' = tasks
          /\ ( /\ req[r].pc = "emit"
               /\ io
               /\ tasks[req[r].taskId].project \in ProjectIds )
                => /\ req'[r].pc = "done" /\ req'[r].res = "200"
                   /\ emitted'.event = "task:updated"
                   /\ emitted'.payload.taskId = req[r].taskId
                   /\ emitted'.payload.status = req[r].arg
                   /\ emitted'.to =
                        { c \in ConnIds :
                            /\ connState[c] = "active"
                            /\ ProjectRoom(tasks[req[r].taskId].project) \in rooms[c] }]_vars

\* task t1 of project p1 was set to done: of two active sockets the one in
\* room project:p1 received task:updated, the other did not
C12_Witness ==
    /\ req["r1"].op = "updateTaskStatus" /\ req["r1"].res = "200"
    /\ req["r1"].taskId = "t1"
    /\ tasks["t1"].status = "done"
    /\ emitted.event = "task:updated"
    /\ emitted.payload = [taskId |-> "t1", status |-> "done"]
    /\ \E c, d \in ConnIds :
          /\ emitted.to = {c}
          /\ ProjectRoom("p1") \in rooms[c]
          /\ connState[d] = "active" /\ ProjectRoom("p1") \notin rooms[d]

\* C13: an addComment call on an existing task T of project P by author U
\* stores one comment (task T, author U) in its insert step and, with
\* Socket.IO initialised, emits comment:new once, in its last step, with
\* T's id and the stored comment, to exactly the sockets then in room
\* project:P, and is answered 201; no other step of the call emits.
C13_CommentPersistedAndBroadcast ==
    [][\A r \in ReqIds :
        (req'[r].op = "addComment" /\ req'[r] # req[r]) =>
          /\ req[r].pc # "emit" => emitted' = emitted
          /\ req'[r].pc # "find" => comments' = comments
          /\ req'[r].pc = "find"
                => /\ req[r].pc = "save"
                   /\ comments' = Append(comments, req'[r].doc)
                   /\ req'[r].doc.task = req[r].taskId
                   /\ req'[r].doc.author = req[r].arg
          /\ ( /\ req[r].pc = "emit"
               /\ io
               /\ req[r].taskId \in DOMAIN tasks )
                => /\ req'[r].pc = "done" /\ req'[r].res = "201"
                   /\ \E i \in 1..Len(comments) : comments[i] = req[r].doc
                   /\ emitted'.event = "comment:new"
                   /\ emitted'.payload.taskId = req[r].taskId
                   /\ emitted'.payload.comment = req[r].doc
                   /\ emitted'.to =
                        RoomMembers(rooms, ProjectRoom(tasks[req[r].taskId].project))]_vars

\* a comment on task t1 of project p1 is stored, and the socket in room
\* project:p1 received comment:new with it while another active socket
\* outside the room did not
C13_Witness ==
    /\ req["r1"].op = "addComment" /\ req["r1"].res = "201"
    /\ req["r1"].taskId = "t1"
    /\ Len(comments) = 1 /\ comments[1].task = "t1"
    /\ emitted.event = "comment:new"
    /\ emitted.payload = [taskId |-> "t1", comment |-> comments[1]]
    /\ \E c, d \in ConnIds :
          /\ emitted.to = {c}
          /\ ProjectRoom("p1") \in rooms[c]
          /\ connState[d] = "active" /\ ProjectRoom("p1") \notin rooms[d]

\* the positions in the collection of the notifications of user u
MineAt(u) == { i \in 1..Len(notifications) : notifications[i].recipient = u }

\* C14 (as stated): a listing for user U returns every stored notification
\* whose recipient is U.
C14_EveryNotificationListed ==
    [][\A r \in ReqIds, u \in UserIds :
        getNotifications(r, u)
            => \A i \in MineAt(u) :
                  \E j \in 1..Len(req'[r].body) : req'[r].body[j] = notifications[i]]_vars

\* C14 (amended): a listing for user U is answered 200 with U's
\* notifications, newest first, up to the 20 most recent: a notification of
\* U is returned exactly when fewer than 20 notifications of U are newer,
\* whether or not Socket.IO was initialised when it was created; nothing of
\* another recipient is returned, and the listing changes nothing.
C14_TwentyMostRecentListed ==
    [][\A r \in ReqIds, u \in UserIds :
        getNotifications(r, u)
            => LET body == req'[r].body
               IN /\ req'[r].res = "200"
                  /\ \A i \in MineAt(u) :
                        (\E j \in 1..Len(body) : body[j] = notifications[i])
                            <=> Cardinality({ k \in MineAt(u) : k > i }) < ListLimit
                  /\ \A j \in 1..Len(body) :
                        /\ body[j].recipient = u
                        /\ \E i \in MineAt(u) : notifications[i] = body[j]
                  /\ \A j, k \in 1..Len(body) :
                        j < k => body[j].notificationId > body[k].notificationId
                  /\ UNCHANGED <<notifications, emitted>>]_vars

\* Socket.IO was never initialised, so none of the 21 notifications of u1
\* was broadcast: the listing returns the 20 most recent
C14_Witness ==
    /\ ~io
    /\ emitted = NoEmit
    /\ Len(notifications) = 21
    /\ req["r1"].op = "getNotifications" /\ req["r1"].arg = "u1"
    /\ Len(req["r1"].body) = 20
    /\ req["r1"].body[1] = notifications[21]

\* the moves of the state machine Connecting -> Authenticated -> Active ->
\* Closed, and the rejection of a handshake
ForwardMoves ==
    { <<"new", "authenticated">>, <<"new", "rejected">>,
      <<"authenticated", "active">>, <<"active", "closed">> }

\* C15: every change of a socket's state is one forward move; a socket is
\* registered only in the move from authenticated to active, under the
\* identity its token carried; a closed socket stays closed and is never
\* again in the registry, in a room or under a heartbeat.
C15_ForwardOnlyLifecycle ==
    [][\A c \in ConnIds :
        /\ connState'[c] # connState[c]
              => <<connState[c], connState'[c]>> \in ForwardMoves
        /\ connState'[c] = "active" => sockUser'[c].id \in UserIds
        /\ (MapHas(onlineUsers', c) /\ ~MapHas(onlineUsers, c))
              => connState[c] = "authenticated" /\ connState'[c] = "active"
        /\ rooms'[c] # {} => connState'[c] = "active"
        /\ connState'[c] = "closed"
              => /\ ~MapHas(onlineUsers', c)
                 /\ rooms'[c] = {}
                 /\ c \notin heartbeat'
        /\ connState[c] = "closed" => connState'[c] = "closed"]_vars

\* one socket has gone through all four states and is closed, the other
\* is active in a room
C15_Witness ==
    \E c, d \in ConnIds :
        /\ connState[c] = "closed" /\ sockUser[c].id \in UserIds
        /\ connState[d] = "active" /\ ProjectRoom("p1") \in rooms[d]
        /\ MapKeys(onlineUsers) = {d}

\* C16: the disconnect of a socket stops its heartbeat; a heartbeat runs
\* only for sockets that are active and in the registry, so no ping is
\* emitted for a socket once its disconnect has been processed.
C16_HeartbeatCancelledOnClose ==
    [][\A c \in ConnIds :
        /\ disconnect(c) => c \notin heartbeat'
        /\ c \in heartbeat' => /\ MapHas(onlineUsers', c)
                                /\ connState'[c] = "active"
        /\ connState[c] = "closed" => ~heartbeatPing(c)
        /\ (emitted' # emitted /\ emitted'.event = "ping")
              => /\ emitted'.to \subseteq heartbeat
                 /\ \A d \in emitted'.to : connState[d] = "active"]_vars

\* after the disconnect of one socket the heartbeat of the other has pinged
\* again, and only that heartbeat is left
C16_Witness ==
    \E c, d \in ConnIds :
        /\ connState[c] = "closed"
        /\ heartbeat = {d}
        /\ emitted.event = "ping"
        /\ emitted.to = {d}

\* C17: a heartbeat ping and a pong (with or without a timestamp) leave the
\* registry, every socket's state, every room membership and the running
\* heartbeats as they were, and no step other than the disconnect handler,
\* which the transport triggers, closes a socket: nothing counts pongs.
C17_HeartbeatNeverCloses ==
    [][\A c \in ConnIds :
        /\ (heartbeatPing(c) \/ \E data \in PongPayloads : pong(c, data))
              => UNCHANGED <<onlineUsers, connState, rooms, heartbeat, proc>>
        /\ (connState'[c] = "closed" /\ connState[c] # "closed") => disconnect(c)]_vars

\* a socket in two rooms has just been pinged: it is still active,
\* registered and in its rooms
C17_Witness ==
    \E c \in ConnIds :
        /\ emitted.event = "ping" /\ emitted.to = {c}
        /\ connState[c] = "active"
        /\ MapHas(onlineUsers, c)
        /\ rooms[c] = {SidRoom(c), ProjectRoom("p1"), UserRoom("u1")}

\* C18: whatever joins a socket has made (its rooms are a set, so any
\* number of joins of one room give the same state), one leaveProject or
\* leaveUser of a room it is in leaves it in its other rooms and not in
\* that one, and a typing event then published to the room by another
\* socket does not reach it.
C18_OneLeaveClearsMembership ==
    \A c \in ConnIds :
        /\ \A p \in ProjectIds :
              ProjectRoom(p) \in rooms[c]
                  => /\ ENABLED leaveProject(c, p)
                     /\ ~ ENABLED ( /\ leaveProject(c, p)
                                    /\ rooms'[c] # rooms[c] \ {ProjectRoom(p)} )
        /\ \A u \in UserIds :
              UserRoom(u) \in rooms[c]
                  => /\ ENABLED leaveUser(c, u)
                     /\ ~ ENABLED ( /\ leaveUser(c, u)
                                    /\ rooms'[c] # rooms[c] \ {UserRoom(u)} )
        /\ \A d \in ConnIds, p \in ProjectIds :
              ProjectRoom(p) \notin rooms[c]
                  => ~ ENABLED ( /\ startTyping(d, ProjectRoom(p))
                                /\ c \in emitted'.to )

\* an active socket is outside room project:p1 (it has left it, or never
\* joined: the two are the same state) while the other socket, a member,
\* has typed into the room: the event reached nobody
C18_Witness ==
    \E c, d \in ConnIds :
        /\ connState[c] = "active" /\ ProjectRoom("p1") \notin rooms[c]
        /\ connState[d] = "active" /\ ProjectRoom("p1") \in rooms[d]
        /\ sockUser[d].id # sockUser[c].id
        /\ emitted.event = "userTyping"
        /\ emitted.payload.roomId = ProjectRoom("p1")
        /\ emitted.payload.userId = sockUser[d].id
        /\ emitted.to = {}

\* C19: joining a room the socket is already in, and leaving a room the
\* socket is not in, change no socket's rooms, no socket's state, not the
\* registry, and do not bring the process down.
C19_RedundantJoinLeaveAreNoOps ==
    [][\A c \in ConnIds :
        /\ \A p \in ProjectIds :
              ( \/ joinProject(c, p) /\ ProjectRoom(p) \in rooms[c]
                \/ leaveProject(c, p) /\ ProjectRoom(p) \notin rooms[c] )
                  => UNCHANGED <<rooms, connState, onlineUsers, heartbeat, proc>>
        /\ \A u \in UserIds :
              ( \/ joinUser(c, u) /\ UserRoom(u) \in rooms[c]
                \/ leaveUser(c, u) /\ UserRoom(u) \notin rooms[c] )
                  => UNCHANGED <<rooms, connState, onlineUsers, heartbeat, proc>>]_vars

\* a socket that is in room project:p1 and not in room user:u1: a second
\* joinProject and a leaveUser are both redundant for it
C19_Witness ==
    \E c, d \in ConnIds :
        /\ connState[c] = "active"
        /\ rooms[c] = {SidRoom(c), ProjectRoom("p1")}
        /\ connState[d] = "active"
        /\ rooms[d] = {SidRoom(d), UserRoom("u1")}

\* C20: an inbound event with an unknown name, a typing event whose payload
\* has no roomId, and a typing event with no payload at all are dropped:
\* nobody receives anything, every socket keeps its state, its registry
\* entry, its rooms and its heartbeat, and the process keeps running.
C20_MalformedEventIsDropped ==
    [][\A c \in ConnIds :
        ( \/ onUnknownEvent(c)
          \/ startTyping(c, UndefinedRoom)
          \/ stopTyping(c, UndefinedRoom)
          \/ startTyping_NoPayload(c)
          \/ stopTyping_NoPayload(c) )
            => /\ UNCHANGED <<connState, onlineUsers, rooms, heartbeat>>
               /\ emitted' = emitted \/ emitted'.to = {}
               /\ proc' = "running"]_vars

KeyCount(registry, c) == Cardinality({ i \in 1..Len(registry) : registry[i].key = c })

C23_IdentityCarriesIdAndName ==
    /\ \A i \in 1..Len(onlineUsers) :
          /\ onlineUsers[i].value.userId \in UserIds
          /\ onlineUsers[i].value.name # Undefined
    /\ emitted.event = "onlineUsers"
          => \A i \in 1..Len(emitted.payload) :
                /\ emitted.payload[i].userId \in UserIds
                /\ emitted.payload[i].name # Undefined
    /\ emitted.event = "userTyping"
          => /\ emitted.payload.userId \in UserIds
             /\ emitted.payload.name # Undefined
    /\ emitted.event = "userStoppedTyping"
          => /\ DOMAIN emitted.payload = {"userId", "roomId"}
             /\ emitted.payload.userId \in UserIds

\* the notifications whose document differs between the two collections
ChangedNotifs(old, new) == { i \in 1..Len(old) : new[i] # old[i] }

\* C25 as stated: a step changes at most one notification, only by
\* setting its isRead and nothing else, and removes none.
C25_OnlyIsReadChanges ==
    [][/\ Len(notifications') >= Len(notifications)
       /\ Cardinality(ChangedNotifs(notifications, notifications')) <= 1
       /\ \A i \in ChangedNotifs(notifications, notifications') :
             notifications'[i] = [notifications[i] EXCEPT !.isRead = TRUE]]_vars

\* C25, amended: no step removes a notification; a step changes at most
\* one, and only as the read acknowledgement of that notification's id
\* does: isRead becomes (or stays) true, updatedAt is refreshed, every
\* other field keeps its value; isRead never goes from true to false.
C25_OnlyReadAckChanges ==
    [][/\ Len(notifications') >= Len(notifications)
       /\ Cardinality(ChangedNotifs(notifications, notifications')) <= 1
       /\ \A i \in 1..Len(notifications) :
             /\ notifications[i].isRead => notifications'[i].isRead
             /\ notifications'[i] # notifications[i]
                   => /\ notifications'[i] =
                           [notifications[i] EXCEPT !.isRead = TRUE, !.updatedAt = Later]
                      /\ \E r \in ReqIds :
                            /\ req'[r].op = "markRead" /\ req'[r].res = "200"
                            /\ req'[r].arg = notifications[i].notificationId]_vars

\* two notifications exist, the first acknowledged (the acknowledgement was
\* the last call of its slot), the second still unread and untouched
C25_Witness ==
    /\ Len(notifications) = 2
    /\ notifications[1].isRead /\ notifications[1].updatedAt = Later
    /\ ~notifications[2].isRead /\ notifications[2].updatedAt = AtCreation
    /\ req["r2"].op = "markRead" /\ req["r2"].arg = notifications[1].notificationId

\* the calls that hold a number of the counter `name` and have not yet
\* saved the document it is for
HoldingSeq(name) ==
    { r \in ReqIds :
        /\ req[r].pc = "save"
        /\ req[r].op = IF name = "notificationId" THEN "assignTask" ELSE "addComment" }

\* the numbers of the counter `name` in the saved documents
SavedSeqs(name) ==
    IF name = "notificationId"
    THEN { notifications[i].notificationId : i \in 1..Len(notifications) }
    ELSE { comments[i].commentId : i \in 1..Len(comments) }

SavedCount(name) == IF name = "notificationId" THEN Len(notifications) ELSE Len(comments)

\* every number handed out so far is held by one call or one document only,
\* and the numbers handed out are 1, 2, ... up to the counter
SeqsAreDistinct(name) ==
    /\ SavedSeqs(name) \cup { req[r].seq : r \in HoldingSeq(name) } = 1..counters[name]
    /\ SavedCount(name) + Cardinality(HoldingSeq(name)) = counters[name]

\* C26: whatever the interleaving of the two requests, a call of
\* getNextSequence adds one to its counter and hands the new value to the
\* caller in the same step, leaving the other counters alone; the numbers
\* handed out for one name are 1, 2, 3, ... with none given twice.
C26_SequenceNeverRepeats ==
    [][/\ \A n \in {"notificationId", "commentId"} : SeqsAreDistinct(n)'
       /\ counters' # counters
            => \E n \in CounterNames, r \in ReqIds :
                  /\ counters' = [counters EXCEPT ![n] = @ + 1]
                  /\ req'[r] # req[r]
                  /\ req'[r].seq = counters'[n]
                  /\ req'[r].pc = "save"]_vars

\* both requests hold a notification number at once, the second and the
\* third ever handed out, while the first is in a saved document; a
\* comment number has been handed out too
C26_Witness ==
    /\ HoldingSeq("notificationId") = ReqIds
    /\ { req[r].seq : r \in ReqIds } = {2, 3}
    /\ SavedSeqs("notificationId") = {1}
    /\ counters["commentId"] = 1

\* a call of updateTaskStatus or assignTask for the task id no task has
\* takes its first step
StartsOnMissingTask(r) ==
    /\ req'[r] # req[r]
    /\ req'[r].op \in {"updateTaskStatus", "assignTask"}
    /\ req'[r].taskId = NoTask
    /\ Free(r)

BothUpdatesFinished ==
    \A r \in ReqIds :
        /\ req[r].op = "updateTaskStatus" /\ req[r].taskId = "t1"
        /\ req[r].pc = "done" /\ req[r].res = "200"

\* C28 as stated: once two status updates of one task have both finished,
\* the last task:updated event carries the status the store holds.
C28_LastEventCarriesStoredStatus ==
    (BothUpdatesFinished /\ emitted.event = "task:updated")
        => emitted.payload.status = tasks["t1"].status

\* C28, amended: a task:updated event carries the status its own call
\* wrote, whatever other updates have been written between that write and
\* the emit.
C28_EventCarriesOwnWrite ==
    [][\A r \in ReqIds :
        (req[r].op = "updateTaskStatus" /\ req[r].pc = "emit" /\ req'[r].pc = "done")
            => /\ req'[r].res = "200"
               /\ emitted' # emitted
                     => /\ emitted'.event = "task:updated"
                        /\ emitted'.payload.status = req[r].arg
               /\ ~getIOThrows
                     => /\ emitted'.event = "task:updated"
                        /\ emitted'.payload.status = req[r].arg
               /\ tasks' = tasks]_vars

\* both updates have finished and the socket in the project room received,
\* as the last event, a status that is not the one the store holds
C28_Witness ==
    /\ BothUpdatesFinished
    /\ emitted.event = "task:updated" /\ emitted.to = {"s1"}
    /\ emitted.payload.status # tasks["t1"].status

\* the user of that id is in the collection and deactivated
Deactivated(id) == HasId(users, id) /\ ~FindById(users, id).isActive

\* a step in which protect hands a request with that user's token to the
\* route handler, or in which a login of that user reads the account as
\* active or ends with 200
AcceptsUser(id) ==
    \E r \in ReqIds :
        /\ req'[r] # req[r]
        /\ \/ req'[r].op = "protect" /\ req'[r].pc = "next" /\ req'[r].arg = id
           \/ /\ req'[r].op = "login" /\ req'[r].pc = "compare" /\ Free(r)
              /\ req'[r].user.id = id /\ req'[r].user.isActive
           \/ /\ req[r].op = "login" /\ req[r].pc = "compare" /\ req[r].user.id = id
              /\ ~req[r].user.isActive /\ req'[r].res = "200"

\* C29: from the moment a user is deactivated, no request with the user's
\* token passes protect and no login of the user succeeds, ever again: no
\* step accepts the user while deactivated, and no step makes the user
\* active again.
C29_DeactivatedUserStaysLockedOut ==
    [][\A id \in UserIds :
        Deactivated(id) => ~AcceptsUser(id) /\ Deactivated(id)']_vars

\* C30: however two registrations of one email interleave, the collection
\* never holds two users with that email, and a registration that has
\* ended either created its user (201) or was refused with 400.
C30_OneUserPerEmailOthers400 ==
    /\ \A e \in Emails : Cardinality({ i \in 1..Len(users) : users[i].email = e }) <= 1
    /\ \A r \in ReqIds :
          (req[r].op = "register" /\ req[r].pc = "done") => req[r].res \in {"201", "400"}

====
